---- MODULE Spec2Model ----
(***************************************************************************)
(* TrustFlash Bot dashboard (app.py): the cached dataset fetches get_vix   *)
(* and get_gex, the value sanitizer safe_float, and one page render that   *)
(* runs the VIX section, the GEX section and the News Flash section.       *)
(***************************************************************************)
EXTENDS Integers, Sequences, FiniteSets, TLC

VARIABLES
    clock,      \* wall-clock seconds read by the cache
    ticks,      \* number of clock advances so far
    renders,    \* number of page renders started so far
    cache,      \* st.cache_data: function name -> NoEntry or [value, ts]
    pc,         \* position of the script run
    world,      \* what the GEX sources answer during the current get_gex call
    i,          \* index of the url the loop of get_gex is at
    attempts,   \* sources get_gex has read in its current or last call
    call,       \* per cached function: the last call of the current render
    shown,      \* what the page shows for each dataset section
    sfIn,       \* argument of the last safe_float call
    sfOut       \* what that call returned

vars == <<clock, ticks, renders, cache, pc, world, i, attempts, call, shown, sfIn, sfOut>>

---------------------------------------------------------------------------
(* Bounds of the model *)

MaxTicks == 2
MaxRenders == 3

\* clock advances offered to the environment: one second, and one second less than the ttl
Ticks == {1, 899}

---------------------------------------------------------------------------
(* Python values handed to safe_float.  A finite float is modelled by an   *)
(* integer; NaN and the infinities are floats of their own kind.           *)

PyFloat(n) == [ty |-> "float", k |-> "fin", v |-> n, items |-> <<>>]
NaN == [ty |-> "float", k |-> "nan", v |-> 0, items |-> <<>>]
PosInf == [ty |-> "float", k |-> "inf", v |-> 1, items |-> <<>>]
NegInf == [ty |-> "float", k |-> "inf", v |-> -1, items |-> <<>>]
PyInt(n) == [ty |-> "int", k |-> "", v |-> n, items |-> <<>>]
PyStr(s) == [ty |-> "str", k |-> s, v |-> 0, items |-> <<>>]
None == [ty |-> "none", k |-> "", v |-> 0, items |-> <<>>]
Series(s) == [ty |-> "series", k |-> "", v |-> 0, items |-> s]

IsFinite(x) == x.ty = "float" /\ x.k = "fin"

\* the text of the strings of the model, and what float() makes of each
NumericText == {"2", "-1"}
SpecialText == {"nan", "inf", "-inf"}
OtherText == {"abc", ""}

Raised(e) == [ok |-> FALSE, val |-> None, err |-> e]
Returned(x) == [ok |-> TRUE, val |-> x, err |-> ""]

\* float(str): a decimal literal, or nan / inf with an optional sign; else ValueError
float_of_str(s) ==
    CASE s = "2" -> Returned(PyFloat(2))
      [] s = "-1" -> Returned(PyFloat(-1))
      [] s = "nan" -> Returned(NaN)
      [] s = "inf" -> Returned(PosInf)
      [] s = "-inf" -> Returned(NegInf)
      [] OTHER -> Raised("ValueError")

\* float(v)
float(v) ==
    CASE v.ty = "float" -> Returned(v)
      [] v.ty = "int" -> Returned(PyFloat(v.v))
      [] v.ty = "str" -> float_of_str(v.k)
      [] OTHER -> Raised("TypeError")

\* pd.isna(f) on a float: true of NaN only
isna(f) == f.ty = "float" /\ f.k = "nan"

\* v.iloc[0]
iloc0(s) == IF Len(s.items) = 0 THEN Raised("IndexError") ELSE Returned(s.items[1])

safe_float(v) ==
    LET u == IF v.ty = "series" THEN iloc0(v) ELSE Returned(v)
        f == IF u.ok THEN float(u.val) ELSE u
    IN  IF ~f.ok THEN None
        ELSE IF isna(f.val) THEN None ELSE f.val

Scalars ==
    {PyFloat(n) : n \in {-1, 0, 2}} \cup {NaN, PosInf, NegInf, None}
        \cup {PyInt(3)} \cup {PyStr(s) : s \in NumericText \cup SpecialText \cup OtherText}

SeriesValues ==
    {Series(<<>>)} \cup {Series(<<x>>) : x \in Scalars}
        \cup {Series(<<x, y>>) : x \in Scalars, y \in {PyFloat(2), PyFloat(0), NaN, PosInf, None}}

Values == Scalars \cup SeriesValues

---------------------------------------------------------------------------
(* Data frames: an index and one sequence of cells per column. *)

DataFrame(idx, cols) == [index |-> idx, data |-> cols]
NoDf == DataFrame(<<>>, <<>>)

Columns(df) == DOMAIN df.data
\* df.empty: some axis has length 0
Empty(df) == Len(df.index) = 0 \/ Columns(df) = {}

\* df[c] = cells
SetCol(df, c, cells) ==
    DataFrame(df.index, [x \in Columns(df) \cup {c} |-> IF x = c THEN cells ELSE df.data[x]])

\* the assignment left out
SetScalar_dropped(df, c, x) == df

\* df[c] = scalar: the scalar on every row
SetScalar(df, c, x) == SetCol(df, c, [r \in 1..Len(df.index) |-> x])

TailSeq(s, n) == IF Len(s) <= n THEN s ELSE SubSeq(s, Len(s) - n + 1, Len(s))

\* df.tail(n)
tail(df, n) == DataFrame(TailSeq(df.index, n), [c \in Columns(df) |-> TailSeq(df.data[c], n)])

\* what a call of a fetch function ends with
NoOutcome == [kind |-> "none", df |-> NoDf, err |-> ""]
Return(df) == [kind |-> "returned", df |-> df, err |-> ""]
Raise(e) == [kind |-> "raised", df |-> NoDf, err |-> e]

\* what one read of a source (read_csv, Ticker.history) answers
ReadOk(df) == [ok |-> TRUE, df |-> df, err |-> ""]
ReadFails(e) == [ok |-> FALSE, df |-> NoDf, err |-> e]

---------------------------------------------------------------------------
(* get_vix *)

VIX_MIN_ROWS == 30
MA_WINDOW == 20
VIX_TAIL == 90

RECURSIVE SumCells(_, _, _)
SumCells(s, lo, hi) == IF lo > hi THEN 0 ELSE s[lo].v + SumCells(s, lo + 1, hi)

\* Series.rolling(w).mean(): NaN until w cells are there, and when one of them is NaN
rolling_mean(s, w) ==
    [j \in 1..Len(s) |->
        IF j < w \/ \E x \in (j - w + 1)..j : ~IsFinite(s[x])
        THEN NaN
        ELSE PyFloat(SumCells(s, j - w + 1, j) \div w)]

\* the history yfinance may answer with: n daily rows with a Close column, the index at 18
History(n) == DataFrame([r \in 1..n |-> r], [c \in {"Close"} |-> [r \in 1..n |-> PyFloat(18)]])
VixLens == {0, 29, 30}
YfAnswers == {ReadFails("YFError")} \cup {ReadOk(History(n)) : n \in VixLens}

get_vix(y) ==
    IF ~y.ok THEN Raise(y.err)
    ELSE IF Empty(y.df) \/ Len(y.df.index) < VIX_MIN_ROWS THEN Raise("Insufficient VIX data")
    ELSE IF "Close" \notin Columns(y.df) THEN Raise("KeyError")
    ELSE Return(tail(SetCol(y.df, "MA20", rolling_mean(y.df.data["Close"], MA_WINDOW)), VIX_TAIL))

---------------------------------------------------------------------------
(* get_gex *)

PRIMARY == "https://raw.githubusercontent.com/SqueezeMetrics/legacy-data/master/spy_gex.csv"
MIRROR == "https://cdn.jsdelivr.net/gh/SqueezeMetrics/legacy-data@master/spy_gex.csv"
LOCAL_FILE == "sample_gex.csv"
GEX_TAIL == 60

\* the mirror listed before the primary
urls_mirror_first == <<MIRROR, PRIMARY>>
urls == <<PRIMARY, MIRROR>>

\* the sample tagged with its file name instead of the sentinel
local_sample_as_file_name == "sample_gex.csv"
local_sample == "local_sample"

NoGexData == "No GEX data available"

\* the tables read_csv may parse: a date column always (parse_dates raises without
\* one), n rows, and a GEX column of value g on every row unless g = 0
Csv(n, g) ==
    DataFrame([r \in 1..n |-> r - 1],
              [c \in {"date"} \cup (IF g = 0 THEN {} ELSE {"GEX"}) |->
                  [r \in 1..n |-> IF c = "date" THEN r ELSE g]])
GexRows == 2
\* each source serves its own figures: an empty table, one without GEX, a full one
CsvTables(g) == {Csv(0, g), Csv(GexRows, 0), Csv(GexRows, g)}
RemoteAnswers(g) == {ReadFails("HTTPError")} \cup {ReadOk(t) : t \in CsvTables(g)}
FileAnswers == {ReadFails("ParserError")} \cup {ReadOk(t) : t \in CsvTables(7)}

\* what the sources answer during one call: each url, and the file beside app.py
\* (nothing is read from a file that does not exist)
NoFile == ReadFails("FileNotFoundError")
Remotes ==
    {[u \in {PRIMARY, MIRROR} |-> IF u = PRIMARY THEN a ELSE b] :
        a \in RemoteAnswers(5), b \in RemoteAnswers(6)}
Worlds ==
    [remote : Remotes, exists : {TRUE}, file : FileAnswers]
        \cup [remote : Remotes, exists : {FALSE}, file : {NoFile}]
\* between calls nothing is being read
NoWorld ==
    [remote |-> [u \in {PRIMARY, MIRROR} |-> ReadFails("")], exists |-> FALSE, file |-> NoFile]

Acceptable(df) == ~Empty(df) /\ "GEX" \in Columns(df)

\* one iteration of the loop over urls: r is what read_csv(url) answered
TryUrl(url, r) ==
    IF r.ok /\ Acceptable(r.df)
    THEN Return(tail(SetScalar(r.df, "_src", url), GEX_TAIL))
    ELSE NoOutcome

\* the sample read without the local.exists() test
TryLocal_unguarded(w) ==
    IF w.file.ok
    THEN Return(tail(SetScalar(w.file.df, "_src", local_sample), GEX_TAIL))
    ELSE Raise(w.file.err)

\* the code after the loop: w.exists is local.exists(), w.file what read_csv(local) answers
TryLocal(w) ==
    IF w.exists
    THEN IF w.file.ok
         THEN Return(tail(SetScalar(w.file.df, "_src", local_sample), GEX_TAIL))
         ELSE Raise(w.file.err)
    ELSE Raise(NoGexData)

---------------------------------------------------------------------------
(* st.cache_data(ttl=...): one store per decorated function *)

\* the ttl written in minutes
ttl_in_minutes == 900 \div 60
VIX_TTL == 900
GEX_TTL == 900

Functions == {"get_vix", "get_gex"}
ttl(f) == IF f = "get_vix" THEN VIX_TTL ELSE GEX_TTL

NoEntry == [has |-> FALSE, value |-> NoDf, ts |-> 0]
Entry(v, t) == [has |-> TRUE, value |-> v, ts |-> t]

\* an entry is read while it is younger than the ttl
CacheHit(e, now, t) == e.has /\ now - e.ts < t

\* a store that keeps whatever the call ended with
CacheStore_failures_too(c, f, out, now) == [c EXCEPT ![f] = Entry(out.df, now)]

\* the store after a call of f that ran the function and ended with out
CacheStore(c, f, out, now) ==
    IF out.kind = "returned" THEN [c EXCEPT ![f] = Entry(out.df, now)] ELSE c

\* a call of a cached function: when it was made, the entry it found, whether the
\* function itself ran, and what the caller got
NoCall == [made |-> FALSE, now |-> 0, entry |-> NoEntry, invoked |-> FALSE, done |-> FALSE,
           out |-> NoOutcome]
Call(now, e, inv, fin, out) ==
    [made |-> TRUE, now |-> now, entry |-> e, invoked |-> inv, done |-> fin, out |-> out]

---------------------------------------------------------------------------
(* The sections of the page *)

Blank == [kind |-> "blank", msg |-> <<"", "">>, m1 |-> None, m2 |-> None, tag |-> ""]
Chart(m1, m2, tag) == [kind |-> "chart", msg |-> <<"", "">>, m1 |-> m1, m2 |-> m2, tag |-> tag]
Notice(kind, label, e) == [kind |-> kind, msg |-> <<label, e>>, m1 |-> None, m2 |-> None, tag |-> ""]

Last(s) == s[Len(s)]

\* f"{v:.2f}" if v else "–": None and 0.0 are falsy and show as the dash (None here)
metric(v) == IF v = None \/ (IsFinite(v) /\ v.v = 0) THEN None ELSE v

\* the body of the VIX try block, given what get_vix() ended with
vix_section(out) ==
    IF out.kind = "raised" THEN Notice("error", "VIX unavailable", out.err)
    ELSE Chart(metric(safe_float(Last(out.df.data["Close"]))),
               metric(safe_float(Last(out.df.data["MA20"]))), "")

\* the body of the GEX try block, given what get_gex() ended with
gex_section(out) ==
    IF out.kind = "raised" THEN Notice("warning", "GEX unavailable", out.err)
    ELSE IF "_src" \notin Columns(out.df) THEN Notice("warning", "GEX unavailable", "KeyError")
    ELSE IF Len(out.df.index) = 0 THEN Notice("warning", "GEX unavailable", "IndexError")
    ELSE IF {"date", "GEX"} \ Columns(out.df) # {} THEN Notice("warning", "GEX unavailable", "KeyError")
    ELSE Chart(None, None, IF out.df.data["_src"][1] = local_sample THEN "(sample)" ELSE "")

\* the VIX section without its except clause: a failure ends the script run
after_vix_unhandled(out) == IF out.kind = "raised" THEN "aborted" ELSE "gex"

\* where the script goes after the VIX try/except
after_vix(out) == "gex"
\* where the script goes after the GEX try/except
after_gex(out) == "news"

---------------------------------------------------------------------------
(* The state machine *)

Init ==
    /\ clock = 0
    /\ ticks = 0
    /\ renders = 0
    /\ cache = [f \in Functions |-> NoEntry]
    /\ pc = "idle"
    /\ world = NoWorld
    /\ i = 1
    /\ attempts = <<>>
    /\ call = [f \in Functions |-> NoCall]
    /\ shown = [f \in Functions |-> Blank]
    /\ sfIn = None
    /\ sfOut = safe_float(None)

\* time passes between two runs of the script
Tick ==
    /\ pc \in {"idle", "done", "aborted"}
    /\ ticks < MaxTicks
    /\ \E d \in Ticks : clock' = clock + d
    /\ ticks' = ticks + 1
    /\ UNCHANGED <<renders, cache, pc, world, i, attempts, call, shown, sfIn, sfOut>>

\* a page view runs the script from the top
StartRender ==
    /\ pc \in {"idle", "done", "aborted"}
    /\ renders < MaxRenders
    /\ renders' = renders + 1
    /\ pc' = "vix"
    /\ shown' = [f \in Functions |-> Blank]
    /\ UNCHANGED <<clock, ticks, cache, world, i, attempts, call, sfIn, sfOut>>

\* the two safe_float calls of the VIX section, when get_vix() returned
VixSanitized(out) ==
    IF out.kind = "returned"
    THEN /\ sfIn' = Last(out.df.data["MA20"])
         /\ sfOut' = safe_float(Last(out.df.data["MA20"]))
    ELSE UNCHANGED <<sfIn, sfOut>>

\* VIX section, get_vix() answered from the store
VixSectionHit ==
    /\ pc = "vix"
    /\ CacheHit(cache["get_vix"], clock, ttl("get_vix"))
    /\ LET out == Return(cache["get_vix"].value)
       IN  /\ call' = [call EXCEPT !["get_vix"] = Call(clock, cache["get_vix"], FALSE, TRUE, out)]
           /\ shown' = [shown EXCEPT !["get_vix"] = vix_section(out)]
           /\ VixSanitized(out)
           /\ pc' = after_vix(out)
    /\ UNCHANGED <<clock, ticks, renders, cache, world, i, attempts>>

\* VIX section, get_vix() runs
VixSectionMiss ==
    /\ pc = "vix"
    /\ ~CacheHit(cache["get_vix"], clock, ttl("get_vix"))
    /\ \E y \in YfAnswers :
          LET out == get_vix(y)
          IN  /\ call' = [call EXCEPT !["get_vix"] = Call(clock, cache["get_vix"], TRUE, TRUE, out)]
              /\ cache' = CacheStore(cache, "get_vix", out, clock)
              /\ shown' = [shown EXCEPT !["get_vix"] = vix_section(out)]
              /\ VixSanitized(out)
              /\ pc' = after_vix(out)
    /\ UNCHANGED <<clock, ticks, renders, world, i, attempts>>

\* GEX section, get_gex() answered from the store
GexSectionHit ==
    /\ pc = "gex"
    /\ CacheHit(cache["get_gex"], clock, ttl("get_gex"))
    /\ LET out == Return(cache["get_gex"].value)
       IN  /\ call' = [call EXCEPT !["get_gex"] = Call(clock, cache["get_gex"], FALSE, TRUE, out)]
           /\ shown' = [shown EXCEPT !["get_gex"] = gex_section(out)]
           /\ pc' = after_gex(out)
    /\ UNCHANGED <<clock, ticks, renders, cache, world, i, attempts, sfIn, sfOut>>

\* GEX section, get_gex() starts running
GexSectionMiss ==
    /\ pc = "gex"
    /\ ~CacheHit(cache["get_gex"], clock, ttl("get_gex"))
    /\ call' = [call EXCEPT !["get_gex"] = Call(clock, cache["get_gex"], TRUE, FALSE, NoOutcome)]
    /\ world' \in Worlds
    /\ i' = 1
    /\ attempts' = <<>>
    /\ pc' = "gex_url"
    /\ UNCHANGED <<clock, ticks, renders, cache, shown, sfIn, sfOut>>

\* get_gex() ends with out: the store, the caller's try block, and on to the next section
GexEnds(out) ==
    /\ call' = [call EXCEPT !["get_gex"] = [@ EXCEPT !.done = TRUE, !.out = out]]
    /\ cache' = CacheStore(cache, "get_gex", out, clock)
    /\ shown' = [shown EXCEPT !["get_gex"] = gex_section(out)]
    /\ pc' = after_gex(out)

\* one iteration of for url in urls
GexTryUrl ==
    /\ pc = "gex_url"
    /\ i <= Len(urls)
    /\ attempts' = Append(attempts, urls[i])
    /\ LET out == TryUrl(urls[i], world.remote[urls[i]])
       IN  IF out.kind = "returned"
           THEN GexEnds(out) /\ UNCHANGED i
           ELSE /\ i' = i + 1
                /\ pc' = IF i + 1 > Len(urls) THEN "gex_local" ELSE "gex_url"
                /\ UNCHANGED <<cache, call, shown>>
    /\ UNCHANGED <<clock, ticks, renders, world, sfIn, sfOut>>

\* the sample file beside app.py, after the loop
GexTryLocal ==
    /\ pc = "gex_local"
    /\ attempts' = Append(attempts, LOCAL_FILE)
    /\ GexEnds(TryLocal(world))
    /\ UNCHANGED <<clock, ticks, renders, world, i, sfIn, sfOut>>

\* the News Flash expander: outside any try block, it ends the run when it raises
NewsSection ==
    /\ pc = "news"
    /\ \E ok \in BOOLEAN : pc' = IF ok THEN "done" ELSE "aborted"
    /\ world' = NoWorld
    /\ UNCHANGED <<clock, ticks, renders, cache, i, attempts, call, shown, sfIn, sfOut>>

Next ==
    \/ Tick
    \/ StartRender
    \/ VixSectionHit
    \/ VixSectionMiss
    \/ GexSectionHit
    \/ GexSectionMiss
    \/ GexTryUrl
    \/ GexTryLocal
    \/ NewsSection

Spec == Init /\ [][Next]_vars

\* the sanitizer on its own, over every value of the model
SafeFloatCall ==
    /\ \E v \in Values : sfIn' = v /\ sfOut' = safe_float(v)
    /\ UNCHANGED <<clock, ticks, renders, cache, pc, world, i, attempts, call, shown>>

SpecSanitizer == Init /\ [][SafeFloatCall]_vars

---------------------------------------------------------------------------
(* Vocabulary of the properties *)

ConfiguredOrder == <<PRIMARY, MIRROR, LOCAL_FILE>>
Sentinel == "local_sample"

Answer(w, src) == IF src = LOCAL_FILE THEN w.file ELSE w.remote[src]
\* the source is there, parses, and its table is non-empty with the GEX column
Succeeds(w, src) ==
    /\ src = LOCAL_FILE => w.exists
    /\ Answer(w, src).ok
    /\ Len(Answer(w, src).df.index) > 0
    /\ "GEX" \in DOMAIN Answer(w, src).df.data
ProvenanceOf(src) == IF src = LOCAL_FILE THEN Sentinel ELSE src

\* df is the table t with one more column, _src, holding tag on every row
IsTagged(df, t, tag) ==
    /\ df.index = t.index
    /\ DOMAIN df.data = DOMAIN t.data \cup {"_src"}
    /\ \A c \in DOMAIN t.data : df.data[c] = t.data[c]
    /\ \A r \in 1..Len(df.index) : df.data["_src"][r] = tag

gex == call["get_gex"]
vix == call["get_vix"]
\* get_gex is running, or has just run in the section the script is leaving
GexRunning == pc \in {"gex_url", "gex_local"}
GexRan == pc = "news" /\ gex.invoked /\ gex.done
RemotesFail == ~Succeeds(world, PRIMARY) /\ ~Succeeds(world, MIRROR)

---------------------------------------------------------------------------
(* Properties *)

\* C1: one call of get_gex reads the sources in the order primary, mirror, sample
\* file, and when some source succeeds it returns the table of the first that does,
\* tagged with that source's provenance, having read no source after it.
C1_PriorityOrder ==
    /\ (GexRunning \/ GexRan) =>
          /\ Len(attempts) <= Len(ConfiguredOrder)
          /\ attempts = SubSeq(ConfiguredOrder, 1, Len(attempts))
    /\ GexRan =>
          \A k \in 1..Len(ConfiguredOrder) :
             (Succeeds(world, ConfiguredOrder[k])
                 /\ \A j \in 1..(k - 1) : ~Succeeds(world, ConfiguredOrder[j]))
             => /\ gex.out.kind = "returned"
                /\ IsTagged(gex.out.df, Answer(world, ConfiguredOrder[k]).df,
                            ProvenanceOf(ConfiguredOrder[k]))
                /\ attempts = SubSeq(ConfiguredOrder, 1, k)

\* the primary fails, the mirror and the sample both succeed: the mirror's table is returned
C1_Witness ==
    /\ GexRan
    /\ ~Succeeds(world, PRIMARY) /\ Succeeds(world, MIRROR) /\ Succeeds(world, LOCAL_FILE)
    /\ gex.out.kind = "returned"
    /\ attempts = <<PRIMARY, MIRROR>>
    /\ gex.out.df.data["_src"][1] = MIRROR

\* C2: when both urls fail and the sample file is present and valid, get_gex returns
\* the sample's table with _src = "local_sample" on every row, and does not raise.
C2_TotalFallthrough ==
    (GexRan /\ RemotesFail /\ Succeeds(world, LOCAL_FILE)) =>
        /\ gex.out.kind = "returned"
        /\ IsTagged(gex.out.df, world.file.df, "local_sample")

C2_Witness ==
    /\ GexRan /\ RemotesFail /\ Succeeds(world, LOCAL_FILE)
    /\ gex.out.kind = "returned"
    /\ Len(gex.out.df.index) = GexRows

\* C3: when both urls fail and the sample file is absent, get_gex raises "No GEX data
\* available"; and it raises that only after all three sources were tried.
C3_TotalExhaustion ==
    /\ (GexRan /\ RemotesFail /\ ~world.exists) =>
          gex.out.kind = "raised" /\ gex.out.err = "No GEX data available"
    /\ (gex.done /\ gex.out.kind = "raised" /\ gex.out.err = "No GEX data available") =>
          attempts = ConfiguredOrder

C3_Witness ==
    /\ GexRan /\ RemotesFail /\ ~world.exists
    /\ gex.out.kind = "raised"

\* C4: every table a fetch returns is non-empty and has its required numeric column
\* (Close for get_vix, GEX for get_gex), whichever source it came from.
C4_ReturnedTableValid ==
    /\ (gex.done /\ gex.out.kind = "returned") =>
          Len(gex.out.df.index) > 0 /\ "GEX" \in DOMAIN gex.out.df.data
    /\ (vix.done /\ vix.out.kind = "returned") =>
          Len(vix.out.df.index) > 0 /\ "Close" \in DOMAIN vix.out.df.data

\* C5: the only failure that leaves get_gex is the exhaustion error: no failure of a
\* single source, the sample file's parse failure included, reaches the caller.
C5_OnlyExhaustionEscapes ==
    (gex.done /\ gex.out.kind = "raised") => gex.out.err = "No GEX data available"

C7_Step ==
    \A f \in {"get_vix", "get_gex"} :
        /\ (call'[f] # call[f] /\ call'[f].done /\ call'[f].out.kind = "raised") =>
              /\ cache' = cache
              /\ call'[f].invoked
              /\ shown'[f].kind \in {"error", "warning"}
              /\ shown'[f].msg[2] = call'[f].out.err
        /\ (call[f].done /\ call[f].out.kind = "raised" /\ call'[f] # call[f]) =>
              call'[f].invoked

\* C7: a call whose function raises leaves the whole store as it was and hands the
\* failure to the caller, and the next call of that function runs it again.
C7_FailureNotCached == [][C7_Step]_vars

\* get_gex raised while get_vix's entry sits in the store
C7_Witness ==
    /\ gex.done /\ gex.invoked /\ gex.out.kind = "raised"
    /\ cache["get_vix"].has
    /\ ~cache["get_gex"].has

\* C8: safe_float returns a finite float as it is, None for NaN, either infinity,
\* None and a non-numeric string, and the wrapped number for a one-element series
\* of a finite float.
C8_Sanitizer ==
    /\ IsFinite(sfIn) => sfOut = sfIn
    /\ (sfIn \in {NaN, PosInf, NegInf, None}
            \/ (sfIn.ty = "str" /\ sfIn.k \in OtherText)) => sfOut = None
    /\ (sfIn.ty = "series" /\ Len(sfIn.items) = 1 /\ IsFinite(sfIn.items[1])) =>
          sfOut = sfIn.items[1]

HasProvenance(df) ==
    /\ "_src" \in DOMAIN df.data
    /\ \A r \in 1..Len(df.index) : df.data["_src"][r] \in {PRIMARY, MIRROR, Sentinel}

C10_DatasetIsolation ==
    /\ pc \in {"gex", "gex_url", "gex_local"} => shown["get_vix"].kind # "blank"
    /\ pc \in {"news", "done", "aborted"} =>
          shown["get_vix"].kind # "blank" /\ shown["get_gex"].kind # "blank"
    /\ shown["get_vix"].kind # "blank" =>
          /\ vix.out.kind = "raised" =>
                shown["get_vix"].kind = "error" /\ shown["get_vix"].msg[2] = vix.out.err
          /\ vix.out.kind = "returned" => shown["get_vix"].kind = "chart"
    /\ shown["get_gex"].kind # "blank" =>
          /\ gex.out.kind = "raised" =>
                shown["get_gex"].kind = "warning" /\ shown["get_gex"].msg[2] = gex.out.err
          /\ (gex.out.kind = "returned" /\ Len(gex.out.df.index) > 0
                 /\ "GEX" \in DOMAIN gex.out.df.data) => shown["get_gex"].kind = "chart"

\* get_vix raised, and the GEX section went on to show its chart
C10_Witness ==
    /\ pc = "news"
    /\ vix.out.kind = "raised" /\ shown["get_vix"].kind = "error"
    /\ gex.invoked /\ gex.out.kind = "returned" /\ shown["get_gex"].kind = "chart"

====
